---- MODULE Spec2Model ----
(***************************************************************************)
(* Authentication subsystem of the Node backend boilerplate: the in-memory *)
(* credential store, UserService, AuthenticationService, the               *)
(* authentication middleware and the controllers' response envelope.       *)
(*                                                                         *)
(* JavaScript objects are records; a thrown Error is the record            *)
(* Throw(message); `null`/`undefined` user lookups are NoUser.             *)
(* Time is counted in units of 12 hours, so the 24 h token life is 2.      *)
(***************************************************************************)
EXTENDS Integers, Sequences, FiniteSets, TLC

\* ---------------------------------------------------------------- bounds
\* Number of uuids the run may hand out (the two seeded users included).
MaxUsers == 3
\* Last instant of the clock.
MaxTime == 3
\* Number of calls that may be in flight at once.
MaxCalls == 2

\* ------------------------------------------------------- program constants
\* 60 * 60 * 24 seconds, in units of 12 hours.
TokenTTL == 2
MinPasswordLen == 8
MinNameLen == 2
MaxNameLen == 50
\* lastLoginAt = null
NoTime == -1
\* findById / findByEmail returning null
NoUser == 0

Roles == {"user", "admin", "moderator"}

SeedHash == "$2b$12$LQv3c1yqBWVHxkd0LHAkCOYz6TtxMQJqhN8/LewdBPj4J/HS.iK6e"

\* ------------------------------------------------------------ client inputs
Emails == {"admin@example.com", "ADMIN@example.com", "user@example.com",
           "new@example.com", "invalid-email"}
Passwords == {"admin123", "password123", "123"}
FirstNames == {"John", "J"}
RoleInputs == Roles \cup {"invalid-role"}

\* String.prototype.toLowerCase on the e-mail addresses of the model.
ToLowerCase(s) ==
    IF s = "ADMIN@example.com" THEN "admin@example.com"
    ELSE IF s = "NEW@example.com" THEN "new@example.com"
    ELSE s

\* Joi.string().email()
IsEmail(s) == s \in {"admin@example.com", "ADMIN@example.com",
                     "user@example.com", "new@example.com", "NEW@example.com"}

VARIABLES
    users,        \* InMemoryUserRepository._users : id -> User
    emailIndex,   \* InMemoryUserRepository._emailIndex : lower-cased email -> id
    nextId,       \* the next uuid uuidv4() hands out
    now,          \* Date.now()
    env,          \* process.env.JWT_SECRET set or not; the jsonwebtoken installed
    attempts,     \* authRateLimit: per limited route, per address, the timestamps kept
    result,       \* what the last service call returned
    response,     \* what the last HTTP request was answered
    calls         \* the calls and requests in flight, suspended at an await

vars == <<users, emailIndex, nextId, now, env, attempts, result, response, calls>>

\* ------------------------------------------------------------------ errors
Throw(msg) == [ok |-> FALSE, message |-> msg]
Return(v) == [ok |-> TRUE, value |-> v]

\* ------------------------------------------------------------------- User
\* new User(data): BaseEntity constructor plus User.initialize.
NewUser(id, data) ==
    [id |-> id,
     email |-> data.email,
     password |-> data.password,
     firstName |-> data.firstName,
     lastName |-> data.lastName,
     role |-> data.role,
     isEmailVerified |-> data.isEmailVerified,
     isActive |-> TRUE,
     lastLoginAt |-> NoTime]

\* User.validate
UserValidate(u) ==
    /\ IsEmail(u.email)
    /\ Len(u.password) >= MinPasswordLen
    /\ Len(u.firstName) >= MinNameLen /\ Len(u.firstName) <= MaxNameLen
    /\ Len(u.lastName) >= MinNameLen /\ Len(u.lastName) <= MaxNameLen
    /\ u.role \in Roles

\* A variant of toPublicJSON that also exports the stored password.
ToPublicJSONLeaky(u) ==
    [email |-> u.email,
     firstName |-> u.firstName,
     lastName |-> u.lastName,
     role |-> u.role,
     isEmailVerified |-> u.isEmailVerified,
     lastLoginAt |-> u.lastLoginAt,
     fullName |-> u.firstName \o " " \o u.lastName,
     passwordHash |-> u.password]

\* User.toPublicJSON
ToPublicJSON(u) ==
    [email |-> u.email,
     firstName |-> u.firstName,
     lastName |-> u.lastName,
     role |-> u.role,
     isEmailVerified |-> u.isEmailVerified,
     lastLoginAt |-> u.lastLoginAt,
     fullName |-> u.firstName \o " " \o u.lastName]

\* BaseService.sanitizeOutput / BaseController.sanitizeOutput: a shallow copy
\* without the truthy fields password, token, secret, key.
SensitiveFields == {"password", "token", "secret", "key"}

\* (Every value the model stores under one of these keys is truthy.)
SanitizeOutput(obj) ==
    [k \in DOMAIN obj \ SensitiveFields |-> obj[k]]

\* ------------------------------------------------------------ repository
Store == [users |-> users, emailIndex |-> emailIndex, nextId |-> nextId]

\* InMemoryUserRepository.initializeSampleData
SeedUsers ==
    (1 :> NewUser(1, [email |-> "admin@example.com", password |-> SeedHash,
                      firstName |-> "Admin", lastName |-> "User",
                      role |-> "admin", isEmailVerified |-> TRUE]))
    @@
    (2 :> NewUser(2, [email |-> "user@example.com", password |-> SeedHash,
                      firstName |-> "Regular", lastName |-> "User",
                      role |-> "user", isEmailVerified |-> TRUE]))

SeedIndex ==
    ("admin@example.com" :> 1) @@ ("user@example.com" :> 2)

\* InMemoryUserRepository.findById
FindById(st, id) == IF id \in DOMAIN st.users THEN id ELSE NoUser

\* InMemoryUserRepository.findByEmail
FindByEmail(st, email) ==
    LET k == ToLowerCase(email) IN
    IF k \in DOMAIN st.emailIndex /\ st.emailIndex[k] \in DOMAIN st.users
    THEN st.emailIndex[k]
    ELSE NoUser

\* InMemoryUserRepository.create
RepoCreate(st, user) ==
    IF ~UserValidate(user)
    THEN [st |-> st, out |-> Throw("Invalid user data")]
    ELSE IF FindByEmail(st, user.email) # NoUser
    THEN [st |-> st, out |-> Throw("User with this email already exists")]
    ELSE [st |-> [st EXCEPT
                    !.users = (user.id :> user) @@ st.users,
                    !.emailIndex = (ToLowerCase(user.email) :> user.id) @@ st.emailIndex],
          out |-> Return(user.id)]

\* InMemoryUserRepository.create in its two halves: up to `await
\* this.findByEmail(user.email)`, whose lookup reads the index before the
\* call is suspended, and from its resumption on, with the user found then.
CreateLookup(st, user) ==
    IF ~UserValidate(user)
    THEN Throw("Invalid user data")
    ELSE Return(FindByEmail(st, user.email))

CreateStore(st, user, existingUser) ==
    IF existingUser # NoUser
    THEN [st |-> st, out |-> Throw("User with this email already exists")]
    ELSE [st |-> [st EXCEPT
                    !.users = (user.id :> user) @@ st.users,
                    !.emailIndex = (ToLowerCase(user.email) :> user.id) @@ st.emailIndex],
          out |-> Return(user.id)]

\* InMemoryUserRepository.delete
RepoDelete(st, id) ==
    IF FindById(st, id) = NoUser
    THEN [st |-> st, out |-> FALSE]
    ELSE LET k == ToLowerCase(st.users[id].email) IN
         [st |-> [st EXCEPT
                    !.users = [i \in DOMAIN st.users \ {id} |-> st.users[i]],
                    !.emailIndex = [e \in DOMAIN st.emailIndex \ {k} |-> st.emailIndex[e]]],
          out |-> TRUE]

\* ---- InMemoryUserRepository.update
\* `updates` is the updates object as the sequence of its own keys, in
\* insertion order, each with its value: <<[key |-> k, value |-> v], ...>>.
\* Keys whose User property has a getter and no setter: the assignment
\* user[key] = value throws a TypeError (class bodies are strict code).
GetterOnly == {"isEmailVerified", "lastLoginAt"}
Settable == {"email", "password", "firstName", "lastName", "role"}

HasKey(updates, k) == \E i \in 1..Len(updates) : updates[i].key = k
ValueOf(updates, k) ==
    updates[CHOOSE i \in 1..Len(updates) : updates[i].key = k].value

\* The forEach over Object.keys(updates): the user after the assignments made
\* before the first throwing key, and whether one threw.
RECURSIVE ApplyUpdates(_, _)
ApplyUpdates(user, updates) ==
    IF updates = <<>>
    THEN [user |-> user, thrown |-> FALSE, key |-> ""]
    ELSE LET u == Head(updates) IN
         IF u.key \in GetterOnly
         THEN [user |-> user, thrown |-> TRUE, key |-> u.key]
         ELSE IF u.key \in Settable
         THEN ApplyUpdates([user EXCEPT ![u.key] = u.value], Tail(updates))
         ELSE ApplyUpdates(user, Tail(updates))

RepoUpdate(st, id, updates) ==
    IF FindById(st, id) = NoUser
    THEN [st |-> st, out |-> Return(NoUser)]
    ELSE LET applied == ApplyUpdates(st.users[id], updates)
             user == applied.user
             st1 == [st EXCEPT !.users[id] = user]
         IN
         IF applied.thrown
         THEN [st |-> st1,
               out |-> Throw("Cannot set property " \o applied.key
                             \o " of #<User> which has only a getter")]
         ELSE IF HasKey(updates, "email") /\ ValueOf(updates, "email") # user.email
         THEN [st |-> [st1 EXCEPT !.emailIndex =
                          (ToLowerCase(ValueOf(updates, "email")) :> user.id)
                          @@ [e \in DOMAIN st.emailIndex \ {ToLowerCase(user.email)}
                                |-> st.emailIndex[e]]],
               out |-> Return(id)]
         ELSE [st |-> st1, out |-> Return(id)]

\* ------------------------------------------------------------ BaseService
\* BaseService.handleError: no Error thrown here carries a code.
HandleError(e) ==
    [message |-> e.message, code |-> "INTERNAL_ERROR", timestamp |-> now]

\* A variant of executeOperation whose catch block rethrows the error.
ExecuteOperationRethrow(out) ==
    IF out.ok
    THEN [success |-> TRUE, data |-> out.value]
    ELSE out

\* BaseService.executeOperation
ExecuteOperation(out) ==
    IF out.ok
    THEN [success |-> TRUE, data |-> out.value]
    ELSE [success |-> FALSE, error |-> HandleError(out)]

\* ------------------------------------------------- bcrypt and jsonwebtoken
\* bcrypt.hash: the digest of a password (the salt is left out: no claim
\* settled here compares two digests of one password).
HashPassword(password) == "$2b$12$" \o password

\* bcrypt.compare: false for a digest of another password and for a string
\* that is no digest. The seeded digest is the digest of neither "admin123"
\* nor "user123": bcrypt("admin123") under the seeded salt
\* LQv3c1yqBWVHxkd0LHAkCO ends IZNQMVhY8f3jRoq4h6gAem6Lf3f3Lwq, the seeded
\* digest ends Yz6TtxMQJqhN8/LewdBPj4J/HS.iK6e.
ComparePassword(password, hash) == hash = HashPassword(password)

\* jwt.sign(payload, secret, {expiresIn, algorithm: 'HS256'}). The payload
\* built by generateToken already has an exp property. jsonwebtoken from 7.0
\* on refuses that combination; the releases before it let expiresIn
\* overwrite exp. No lock file pins the release, so env.jwtRejectsExp says
\* which one is installed.
JwtSign(payload, expiresIn) ==
    IF env.jwtRejectsExp
    THEN Throw("Bad \"options.expiresIn\" option the payload already has an \"exp\" property.")
    ELSE Return([payload EXCEPT !.exp = payload.iat + expiresIn]
                @@ [sig |-> "valid", wellFormed |-> TRUE])

\* jwt.verify(token, secret, {algorithms: ['HS256']}) at time t: structure,
\* then signature, then expiry (clockTimestamp >= exp).
JwtVerify(token, t) ==
    IF ~token.wellFormed THEN Throw("jwt malformed")
    ELSE IF token.sig # "valid" THEN Throw("invalid signature")
    ELSE IF t >= token.exp THEN Throw("jwt expired")
    ELSE Return([userId |-> token.userId, email |-> token.email,
                 role |-> token.role, iat |-> token.iat, exp |-> token.exp])

\* -------------------------------------------------- AuthenticationService
SecretRequired == "JWT_SECRET environment variable is required"

\* A variant of generateToken that signs with nothing when no secret is set.
GenerateTokenUnsigned(user) ==
    LET payload == [userId |-> user.id, email |-> user.email, role |-> user.role,
                    iat |-> now, exp |-> now + TokenTTL]
    IN IF ~env.JWT_SECRET
       THEN Return(payload @@ [sig |-> "none", wellFormed |-> TRUE])
       ELSE JwtSign(payload, TokenTTL)

\* AuthenticationService.generateToken
GenerateToken(user) ==
    LET payload == [userId |-> user.id, email |-> user.email, role |-> user.role,
                    iat |-> now, exp |-> now + TokenTTL]
    IN IF ~env.JWT_SECRET
       THEN Throw(SecretRequired)
       ELSE JwtSign(payload, TokenTTL)

\* AuthenticationService.verifyToken
VerifyToken(token) ==
    IF ~env.JWT_SECRET
    THEN Throw(SecretRequired)
    ELSE JwtVerify(token, now)

\* The AuthResult object literal returned by localStrategy, register, refreshToken.
AuthResult(user, token) ==
    [user |-> SanitizeOutput(ToPublicJSON(user)),
     token |-> token,
     expiresIn |-> "24h"]

\* A variant of localStrategy that tells an inactive account apart.
LocalStrategyTelling(st, email, password) ==
    LET id == FindByEmail(st, email) IN
    IF id = NoUser
    THEN [st |-> st, out |-> Throw("Invalid credentials")]
    ELSE IF ~st.users[id].isActive
    THEN [st |-> st, out |-> Throw("Account is deactivated")]
    ELSE IF ~ComparePassword(password, st.users[id].password)
    THEN [st |-> st, out |-> Throw("Invalid credentials")]
    ELSE LET st1 == [st EXCEPT !.users[id].lastLoginAt = now]
             tok == GenerateToken(st1.users[id])
         IN IF tok.ok
            THEN [st |-> st1, out |-> Return(AuthResult(st1.users[id], tok.value))]
            ELSE [st |-> st1, out |-> tok]

\* AuthenticationService.localStrategy
LocalStrategy(st, email, password) ==
    LET id == FindByEmail(st, email) IN
    IF id = NoUser \/ ~st.users[id].isActive
    THEN [st |-> st, out |-> Throw("Invalid credentials")]
    ELSE IF ~ComparePassword(password, st.users[id].password)
    THEN [st |-> st, out |-> Throw("Invalid credentials")]
    ELSE LET st1 == [st EXCEPT !.users[id].lastLoginAt = now]
             tok == GenerateToken(st1.users[id])
         IN IF tok.ok
            THEN [st |-> st1, out |-> Return(AuthResult(st1.users[id], tok.value))]
            ELSE [st |-> st1, out |-> tok]

\* The Joi schema of authenticate (and of AuthController.login).
LoginShapeOk(email, password) ==
    IsEmail(email) /\ Len(password) >= MinPasswordLen

\* AuthenticationService.authenticate, inside executeOperation
AuthenticateOp(st, email, password) ==
    IF ~LoginShapeOk(email, password)
    THEN [st |-> st, out |-> Throw("Invalid input data")]
    ELSE LocalStrategy(st, email, password)

\* An optional field the caller left out.
Absent == "<undefined>"

\* A variant of the schema without the rules on the two names.
ProfileShapeLax(p) ==
    /\ IsEmail(p.email)
    /\ Len(p.password) >= MinPasswordLen
    /\ p.role \in Roles \cup {Absent}

\* The Joi schema of register and createUser; role is optional.
ProfileShapeOk(p) ==
    /\ IsEmail(p.email)
    /\ Len(p.password) >= MinPasswordLen
    /\ Len(p.firstName) >= MinNameLen /\ Len(p.firstName) <= MaxNameLen
    /\ Len(p.lastName) >= MinNameLen /\ Len(p.lastName) <= MaxNameLen
    /\ p.role \in Roles \cup {Absent}

\* validation.data: the profile with Joi's default('user') applied.
ValidatedProfile(p) ==
    [p EXCEPT !.role = IF p.role = Absent THEN "user" ELSE p.role]

\* A variant of register that persists the password as it was given.
RegisterOpPlain(st, p) ==
    IF ~ProfileShapeOk(p)
    THEN [st |-> st, out |-> Throw("Invalid input data")]
    ELSE LET data == ValidatedProfile(p)
             user == NewUser(st.nextId, data @@ [isEmailVerified |-> FALSE])
             saved == RepoCreate(st, user)
         IN IF ~saved.out.ok
            THEN saved
            ELSE LET st1 == [saved.st EXCEPT !.nextId = st.nextId + 1]
                     tok == GenerateToken(user)
                 IN IF tok.ok
                    THEN [st |-> st1, out |-> Return(AuthResult(user, tok.value))]
                    ELSE [st |-> st1, out |-> tok]

\* AuthenticationService.register, inside executeOperation
RegisterOp(st, p) ==
    IF ~ProfileShapeOk(p)
    THEN [st |-> st, out |-> Throw("Invalid input data")]
    ELSE LET data == ValidatedProfile(p)
             user == NewUser(st.nextId,
                             [data EXCEPT !.password = HashPassword(data.password)]
                             @@ [isEmailVerified |-> FALSE])
             saved == RepoCreate(st, user)
         IN IF ~saved.out.ok
            THEN saved
            ELSE LET st1 == [saved.st EXCEPT !.nextId = st.nextId + 1]
                     tok == GenerateToken(user)
                 IN IF tok.ok
                    THEN [st |-> st1, out |-> Return(AuthResult(user, tok.value))]
                    ELSE [st |-> st1, out |-> tok]

\* A variant of refreshToken that does not re-check the identity's isActive.
RefreshTokenOpStale(st, token) ==
    LET decoded == VerifyToken(token) IN
    IF ~decoded.ok
    THEN [st |-> st, out |-> decoded]
    ELSE LET id == FindById(st, decoded.value.userId) IN
         IF id = NoUser
         THEN [st |-> st, out |-> Throw("Invalid token")]
         ELSE LET tok == GenerateToken(st.users[id]) IN
              IF tok.ok
              THEN [st |-> st, out |-> Return(AuthResult(st.users[id], tok.value))]
              ELSE [st |-> st, out |-> tok]

\* AuthenticationService.refreshToken, inside executeOperation
RefreshTokenOp(st, token) ==
    LET decoded == VerifyToken(token) IN
    IF ~decoded.ok
    THEN [st |-> st, out |-> decoded]
    ELSE LET id == FindById(st, decoded.value.userId) IN
         IF id = NoUser \/ ~st.users[id].isActive
         THEN [st |-> st, out |-> Throw("Invalid token")]
         ELSE LET tok == GenerateToken(st.users[id]) IN
              IF tok.ok
              THEN [st |-> st, out |-> Return(AuthResult(st.users[id], tok.value))]
              ELSE [st |-> st, out |-> tok]


\* ------------------------------------------------------------ UserService
\* UserService.createUser, inside executeOperation
CreateUserOp(st, p) ==
    IF ~ProfileShapeOk(p)
    THEN [st |-> st, out |-> Throw("Invalid input data")]
    ELSE IF FindByEmail(st, p.email) # NoUser
    THEN [st |-> st, out |-> Throw("User with this email already exists")]
    ELSE LET user == NewUser(st.nextId,
                             ValidatedProfile(p) @@ [isEmailVerified |-> FALSE])
         IN IF ~UserValidate(user)
            THEN [st |-> st, out |-> Throw("Invalid user data")]
            ELSE LET saved == RepoCreate(st, user) IN
                 IF ~saved.out.ok
                 THEN saved
                 ELSE [st |-> [saved.st EXCEPT !.nextId = st.nextId + 1],
                       out |-> Return(SanitizeOutput(ToPublicJSON(user)))]

\* The Joi schema of updateUser: every key optional, none unknown.
UpdateValueOk(u) ==
    CASE u.key = "email" -> IsEmail(u.value)
      [] u.key = "role" -> u.value \in Roles
      [] u.key = "isEmailVerified" -> u.value \in {"true", "false"}
      [] u.key \in {"firstName", "lastName"} ->
            Len(u.value) >= MinNameLen /\ Len(u.value) <= MaxNameLen
      [] OTHER -> FALSE

UpdatesShapeOk(updates) ==
    \A i \in 1..Len(updates) : UpdateValueOk(updates[i])

\* UserService.updateUser, inside executeOperation
UpdateUserOp(st, id, updates) ==
    IF ~UpdatesShapeOk(updates)
    THEN [st |-> st, out |-> Throw("Invalid input data")]
    ELSE IF FindById(st, id) = NoUser
    THEN [st |-> st, out |-> Throw("User not found")]
    ELSE IF /\ HasKey(updates, "email")
            /\ ValueOf(updates, "email") # st.users[id].email
            /\ FindByEmail(st, ValueOf(updates, "email")) # NoUser
    THEN [st |-> st, out |-> Throw("Email is already taken")]
    ELSE LET updated == RepoUpdate(st, id, updates) IN
         IF ~updated.out.ok
         THEN updated
         ELSE IF updated.out.value = NoUser
         THEN [st |-> updated.st, out |-> Throw("Failed to update user")]
         ELSE [st |-> updated.st,
               out |-> Return(SanitizeOutput(ToPublicJSON(updated.st.users[id])))]

\* UserService.deleteUser, inside executeOperation
DeleteUserOp(st, id) ==
    IF FindById(st, id) = NoUser
    THEN [st |-> st, out |-> Throw("User not found")]
    ELSE IF st.users[id].role = "admin"
    THEN [st |-> st, out |-> Throw("Cannot delete admin users")]
    ELSE LET deleted == RepoDelete(st, id) IN
         IF ~deleted.out
         THEN [st |-> deleted.st, out |-> Throw("Failed to delete user")]
         ELSE [st |-> deleted.st, out |-> Return(TRUE)]

\* UserService.softDeleteUser, inside executeOperation
SoftDeleteUserOp(st, id) ==
    IF FindById(st, id) = NoUser
    THEN [st |-> st, out |-> Throw("User not found")]
    ELSE IF st.users[id].role = "admin"
    THEN [st |-> st, out |-> Throw("Cannot deactivate admin users")]
    ELSE LET st1 == [st EXCEPT !.users[id].isActive = FALSE] IN
         [st |-> st1, out |-> Return(SanitizeOutput(ToPublicJSON(st1.users[id])))]

\* UserService.restoreUser, inside executeOperation
RestoreUserOp(st, id) ==
    IF FindById(st, id) = NoUser
    THEN [st |-> st, out |-> Throw("User not found")]
    ELSE LET st1 == [st EXCEPT !.users[id].isActive = TRUE] IN
         [st |-> st1, out |-> Return(SanitizeOutput(ToPublicJSON(st1.users[id])))]

\* UserService.verifyUserEmail, inside executeOperation
VerifyUserEmailOp(st, id) ==
    IF FindById(st, id) = NoUser
    THEN [st |-> st, out |-> Throw("User not found")]
    ELSE LET st1 == [st EXCEPT !.users[id].isEmailVerified = TRUE] IN
         [st |-> st1, out |-> Return(SanitizeOutput(ToPublicJSON(st1.users[id])))]

\* ---- register and createUser as the sequences of steps between their
\* awaits. A call in flight is [pc, op, profile] with, once it has them, the
\* User it built and the user its last lookup found; a step returns the store
\* and the call as it is suspended next, or Finished with what the callback
\* of executeOperation returned or threw.
Finished(call, st, out) ==
    [st |-> st,
     call |-> [pc |-> "done", op |-> call.op, profile |-> call.profile,
               result |-> ExecuteOperation(out)]]

Suspended(call, st, pc, user, existingUser) ==
    [st |-> st,
     call |-> [pc |-> pc, op |-> call.op, profile |-> call.profile,
               user |-> user, existingUser |-> existingUser]]

\* From the call to the first await: validateInput, and then in createUser
\* `await this._userRepository.findByEmail(...)`, in register
\* `await this.hashPassword(...)`.
StartStep(st, op, p) ==
    LET call == [pc |-> "idle", op |-> op, profile |-> p] IN
    IF ~ProfileShapeOk(p)
    THEN Finished(call, st, Throw("Invalid input data"))
    ELSE IF op = "createUser"
    THEN Suspended(call, st, "checked", NoUser, FindByEmail(st, p.email))
    ELSE Suspended(call, st, "hashing", NoUser, NoUser)

\* `new User(...)` and the first half of create, up to its await.
BuildStep(st, call, data) ==
    LET user == NewUser(st.nextId, data @@ [isEmailVerified |-> FALSE])
        st1 == [st EXCEPT !.nextId = st.nextId + 1]
        looked == CreateLookup(st1, user)
    IN IF ~looked.ok
       THEN Finished(call, st1, looked)
       ELSE Suspended(call, st1, "creating", user, looked.value)

\* From one await to the next one, or to the end of the call.
ResumeStep(st, call) ==
    CASE call.pc = "checked" ->
            IF call.existingUser # NoUser
            THEN Finished(call, st, Throw("User with this email already exists"))
            ELSE BuildStep(st, call, ValidatedProfile(call.profile))
      [] call.pc = "hashing" ->
            LET data == ValidatedProfile(call.profile) IN
            BuildStep(st, call, [data EXCEPT !.password = HashPassword(data.password)])
      [] call.pc = "creating" ->
            LET saved == CreateStore(st, call.user, call.existingUser) IN
            IF ~saved.out.ok
            THEN Finished(call, saved.st, saved.out)
            ELSE IF call.op = "createUser"
            THEN Finished(call, saved.st,
                          Return(SanitizeOutput(ToPublicJSON(call.user))))
            ELSE LET tok == GenerateToken(call.user) IN
                 Finished(call, saved.st,
                          IF tok.ok THEN Return(AuthResult(call.user, tok.value))
                          ELSE tok)

\* --------------------------------------------------------- BaseController
Null == <<>>

\* BaseController.sendSuccess
SendSuccess(data, statusCode, message) ==
    [status |-> statusCode,
     body |-> [success |-> TRUE, message |-> message,
               data |-> SanitizeOutput(data), timestamp |-> now]]

\* BaseController.sendError
SendError(message, statusCode, code) ==
    [status |-> statusCode,
     body |-> [success |-> FALSE,
               error |-> [message |-> message, code |-> code, timestamp |-> now]]]

\* error.message.includes(needle), on the messages this program throws. The
\* messages of validateRequest ('Validation failed: "email" must be a valid
\* email', ...) contain none of the needles: their V is a capital.
Includes(message, needle) ==
    CASE needle = "not found" -> message \in {"User not found"}
      [] needle = "already exists" ->
            message \in {"User with this email already exists"}
      [] needle = "Invalid" ->
            message \in {"Invalid credentials", "Invalid token",
                         "Invalid input data", "Invalid user data",
                         "Invalid reset token", "Invalid verification token"}
      [] needle = "token" ->
            message \in {"Invalid token", "Refresh token is required",
                         "Invalid reset token", "Invalid verification token",
                         "Validation failed: \"token\" is required",
                         "Validation failed: \"token\" is required, \"newPassword\" length must be at least 8 characters long"}
      [] OTHER -> FALSE

\* BaseController.asyncHandler: the catch block.
AsyncHandlerCatch(message) ==
    IF Includes(message, "not found")
    THEN SendError(message, 404, "NOT_FOUND")
    ELSE IF Includes(message, "already exists")
    THEN SendError(message, 409, "CONFLICT")
    ELSE IF Includes(message, "Invalid") \/ Includes(message, "validation")
    THEN SendError(message, 400, "VALIDATION_ERROR")
    ELSE IF Includes(message, "Unauthorized") \/ Includes(message, "token")
    THEN SendError(message, 401, "UNAUTHORIZED")
    ELSE IF Includes(message, "Forbidden") \/ Includes(message, "permission")
    THEN SendError(message, 403, "FORBIDDEN")
    ELSE SendError(message, 500, "INTERNAL_ERROR")

\* The tail of every controller method: a failed service result is thrown as
\* Error(result.error.message), a successful one is sent.
Respond(res, data, statusCode, message) ==
    IF res.success
    THEN SendSuccess(data, statusCode, message)
    ELSE AsyncHandlerCatch(res.error.message)

\* BaseController.validateRequest: the message of the Error it throws
\* (abortEarly: false, so one Joi message per broken rule), "" when valid.
JoiEmail(v) == IF IsEmail(v) THEN <<>> ELSE <<"\"email\" must be a valid email">>
JoiPassword(v) ==
    IF Len(v) >= MinPasswordLen THEN <<>>
    ELSE <<"\"password\" length must be at least 8 characters long">>
JoiName(field, v) ==
    IF Len(v) < MinNameLen
    THEN <<"\"" \o field \o "\" length must be at least 2 characters long">>
    ELSE IF Len(v) > MaxNameLen
    THEN <<"\"" \o field \o "\" length must be less than or equal to 50 characters long">>
    ELSE <<>>
JoiRole(v) ==
    IF v \in Roles \cup {Absent} THEN <<>>
    ELSE <<"\"role\" must be one of [user, admin, moderator]">>

RECURSIVE Join(_)
Join(msgs) ==
    IF Len(msgs) = 1 THEN msgs[1] ELSE msgs[1] \o ", " \o Join(Tail(msgs))

ValidationFailed(msgs) ==
    IF msgs = <<>> THEN "" ELSE "Validation failed: " \o Join(msgs)

ValidateLogin(body) ==
    ValidationFailed(JoiEmail(body.email) \o JoiPassword(body.password))

ValidateProfile(body) ==
    ValidationFailed(JoiEmail(body.email) \o JoiPassword(body.password)
                     \o JoiName("firstName", body.firstName)
                     \o JoiName("lastName", body.lastName) \o JoiRole(body.role))

\* ------------------------------------------------ AuthenticationMiddleware
NoToken == [none |-> TRUE]

Deny(statusCode, message, code) ==
    [pass |-> FALSE,
     status |-> statusCode,
     body |-> [success |-> FALSE, error |-> [message |-> message, code |-> code]]]

\* A variant of authenticateToken that does not look at isActive.
AuthenticateTokenAnyUser(service, st, token) ==
    IF token = NoToken
    THEN Deny(401, "Access token is required", "MISSING_TOKEN")
    ELSE IF service # "AuthenticationService"
    THEN Deny(401, "Invalid or expired token", "INVALID_TOKEN")
    ELSE LET decoded == VerifyToken(token) IN
         IF ~decoded.ok
         THEN Deny(401, "Invalid or expired token", "INVALID_TOKEN")
         ELSE IF FindById(st, decoded.value.userId) = NoUser
         THEN Deny(401, "Invalid or expired token", "INVALID_TOKEN")
         ELSE [pass |-> TRUE, user |-> decoded.value.userId]

\* AuthenticationMiddleware.authenticateToken. `service` is the object the
\* middleware was constructed with: AuthRoutes passes the
\* AuthenticationService, UserRoutes passes userService._userRepository, which
\* has no verifyToken, so the call throws a TypeError inside the try block.
AuthenticateToken(service, st, token) ==
    IF token = NoToken
    THEN Deny(401, "Access token is required", "MISSING_TOKEN")
    ELSE IF service # "AuthenticationService"
    THEN Deny(401, "Invalid or expired token", "INVALID_TOKEN")
    ELSE LET decoded == VerifyToken(token) IN
         IF ~decoded.ok
         THEN Deny(401, "Invalid or expired token", "INVALID_TOKEN")
         ELSE LET id == FindById(st, decoded.value.userId) IN
              IF id = NoUser \/ ~st.users[id].isActive
              THEN Deny(401, "Invalid or expired token", "INVALID_TOKEN")
              ELSE [pass |-> TRUE, user |-> id]

\* AuthenticationMiddleware.requireRoles(...roles); reqUser is req.user.
RequireRoles(roles, st, reqUser) ==
    IF reqUser = NoUser
    THEN Deny(401, "Authentication required", "AUTHENTICATION_REQUIRED")
    ELSE IF \A i \in 1..Len(roles) : roles[i] # st.users[reqUser].role
    THEN [pass |-> FALSE,
          status |-> 403,
          body |-> [success |-> FALSE,
                    error |-> [message |-> "Insufficient permissions",
                               code |-> "INSUFFICIENT_PERMISSIONS",
                               requiredRoles |-> roles,
                               userRole |-> st.users[reqUser].role]]]
    ELSE [pass |-> TRUE, user |-> reqUser]

\* requireAdmin / requireModerator
AdminOnly == <<"admin">>
ModeratorUp == <<"moderator", "admin">>

\* authRateLimit({windowMs, max}): timestamp > now - windowMs, with the
\* window given as the number of windows in one clock unit of 12 hours.
LoginLimit == [windowsPerUnit |-> 48, max |-> 5, retryAfter |-> 900]
RegisterLimit == [windowsPerUnit |-> 12, max |-> 3, retryAfter |-> 3600]

Pruned(limit, stamps) ==
    SelectSeq(stamps, LAMBDA ts : (now - ts) * limit.windowsPerUnit < 1)

\* A variant of authRateLimit that admits without recording the attempt.
AuthRateLimitForgetful(limit, stamps) ==
    LET current == Pruned(limit, stamps) IN
    IF Len(current) >= limit.max
    THEN [pass |-> FALSE, stamps |-> current,
          status |-> 429,
          body |-> [success |-> FALSE,
                    error |-> [message |-> "Too many authentication attempts",
                               code |-> "RATE_LIMIT_EXCEEDED",
                               retryAfter |-> limit.retryAfter]]]
    ELSE [pass |-> TRUE, stamps |-> current]

\* A variant of authRateLimit that tests length > max.
AuthRateLimitLoose(limit, stamps) ==
    LET current == Pruned(limit, stamps) IN
    IF Len(current) > limit.max
    THEN [pass |-> FALSE, stamps |-> current,
          status |-> 429,
          body |-> [success |-> FALSE,
                    error |-> [message |-> "Too many authentication attempts",
                               code |-> "RATE_LIMIT_EXCEEDED",
                               retryAfter |-> limit.retryAfter]]]
    ELSE [pass |-> TRUE, stamps |-> Append(current, now)]

AuthRateLimit(limit, stamps) ==
    LET current == Pruned(limit, stamps) IN
    IF Len(current) >= limit.max
    THEN [pass |-> FALSE, stamps |-> current,
          status |-> 429,
          body |-> [success |-> FALSE,
                    error |-> [message |-> "Too many authentication attempts",
                               code |-> "RATE_LIMIT_EXCEEDED",
                               retryAfter |-> limit.retryAfter]]]
    ELSE [pass |-> TRUE, stamps |-> Append(current, now)]

\* ---------------------------------------------------------- AuthController
NoCall == [op |-> "none"]

\* What a route hands back: the store, the service call it made, the answer.
Answer(st, call, reached, reqUser, sent) ==
    [st |-> st, call |-> call, reached |-> reached, user |-> reqUser,
     status |-> sent.status, body |-> sent.body]

\* AuthController.login
LoginHandler(st, body) ==
    IF ValidateLogin(body) # ""
    THEN Answer(st, NoCall, TRUE, NoUser, AsyncHandlerCatch(ValidateLogin(body)))
    ELSE LET r == AuthenticateOp(st, body.email, body.password)
             res == ExecuteOperation(r.out)
         IN Answer(r.st, [op |-> "authenticate"] @@ res, TRUE, NoUser,
                   Respond(res, IF res.success THEN res.data ELSE Null,
                           200, "Login successful"))

\* AuthController.register
RegisterHandler(st, body) ==
    IF ValidateProfile(body) # ""
    THEN Answer(st, NoCall, TRUE, NoUser, AsyncHandlerCatch(ValidateProfile(body)))
    ELSE LET r == RegisterOp(st, body)
             res == ExecuteOperation(r.out)
         IN Answer(r.st, [op |-> "register"] @@ res, TRUE, NoUser,
                   Respond(res, IF res.success THEN res.data ELSE Null,
                           201, "User registered successfully"))

\* AuthController.refreshToken
RefreshTokenHandler(st, token, reqUser) ==
    IF token = NoToken
    THEN Answer(st, NoCall, TRUE, reqUser,
                AsyncHandlerCatch("Refresh token is required"))
    ELSE LET r == RefreshTokenOp(st, token)
             res == ExecuteOperation(r.out)
         IN Answer(r.st, [op |-> "refreshToken"] @@ res, TRUE, reqUser,
                   Respond(res, IF res.success THEN res.data ELSE Null,
                           200, "Token refreshed successfully"))

\* AuthController.getProfile
GetProfileHandler(st, reqUser) ==
    IF reqUser = NoUser
    THEN Answer(st, NoCall, TRUE, reqUser, AsyncHandlerCatch("User not authenticated"))
    ELSE Answer(st, NoCall, TRUE, reqUser,
                SendSuccess(ToPublicJSON(st.users[reqUser]), 200,
                            "Profile retrieved successfully"))

\* A variant of logout that deactivates the identity that logs out.
LogoutHandlerRevoking(st, reqUser) ==
    Answer([st EXCEPT !.users[reqUser].isActive = FALSE], NoCall, TRUE, reqUser,
           SendSuccess(Null, 200, "Logout successful"))

\* AuthController.logout
LogoutHandler(st, reqUser) ==
    Answer(st, NoCall, TRUE, reqUser, SendSuccess(Null, 200, "Logout successful"))

\* Joi.string().min(8).required() on a named field of the body.
JoiSecret(field, v) ==
    IF Len(v) >= MinPasswordLen THEN <<>>
    ELSE <<"\"" \o field \o "\" length must be at least 8 characters long">>

ValidateChange(body) ==
    ValidationFailed(JoiSecret("currentPassword", body.currentPassword)
                     \o JoiSecret("newPassword", body.newPassword))

ValidateReset(body) ==
    ValidationFailed((IF body.token = NoToken THEN <<"\"token\" is required">>
                      ELSE <<>>)
                     \o JoiSecret("newPassword", body.newPassword))

\* _userRepository.update(id, {password: hashedPassword}) and what the two
\* password handlers answer after it.
StorePassword(st, id, newPassword, reqUser, failed, done) ==
    LET updated == RepoUpdate(st, id, <<[key |-> "password",
                                         value |-> HashPassword(newPassword)]>>)
    IN IF ~updated.out.ok
       THEN Answer(updated.st, NoCall, TRUE, reqUser,
                   AsyncHandlerCatch(updated.out.message))
       ELSE IF updated.out.value = NoUser
       THEN Answer(updated.st, NoCall, TRUE, reqUser, AsyncHandlerCatch(failed))
       ELSE Answer(updated.st, NoCall, TRUE, reqUser, SendSuccess(Null, 200, done))

\* A variant of changePassword that does not compare the current password.
ChangePasswordHandlerBlind(st, body, reqUser) ==
    IF reqUser = NoUser
    THEN Answer(st, NoCall, TRUE, reqUser, AsyncHandlerCatch("User not authenticated"))
    ELSE IF ValidateChange(body) # ""
    THEN Answer(st, NoCall, TRUE, reqUser, AsyncHandlerCatch(ValidateChange(body)))
    ELSE StorePassword(st, reqUser, body.newPassword, reqUser,
                       "Failed to update password", "Password changed successfully")

\* AuthController.changePassword
ChangePasswordHandler(st, body, reqUser) ==
    IF reqUser = NoUser
    THEN Answer(st, NoCall, TRUE, reqUser, AsyncHandlerCatch("User not authenticated"))
    ELSE IF ValidateChange(body) # ""
    THEN Answer(st, NoCall, TRUE, reqUser, AsyncHandlerCatch(ValidateChange(body)))
    ELSE IF ~ComparePassword(body.currentPassword, st.users[reqUser].password)
    THEN Answer(st, NoCall, TRUE, reqUser,
                AsyncHandlerCatch("Current password is incorrect"))
    ELSE StorePassword(st, reqUser, body.newPassword, reqUser,
                       "Failed to update password", "Password changed successfully")

\* AuthController.resetPassword
ResetPasswordHandler(st, body) ==
    IF ValidateReset(body) # ""
    THEN Answer(st, NoCall, TRUE, NoUser, AsyncHandlerCatch(ValidateReset(body)))
    ELSE LET decoded == VerifyToken(body.token) IN
         IF ~decoded.ok
         THEN Answer(st, NoCall, TRUE, NoUser, AsyncHandlerCatch(decoded.message))
         ELSE LET id == FindById(st, decoded.value.userId) IN
              IF id = NoUser
              THEN Answer(st, NoCall, TRUE, NoUser,
                          AsyncHandlerCatch("Invalid reset token"))
              ELSE StorePassword(st, id, body.newPassword, NoUser,
                                 "Failed to reset password",
                                 "Password reset successfully")

\* AuthController.verifyEmail; the token is the :token segment of the path.
VerifyEmailHandler(st, token) ==
    LET decoded == VerifyToken(token) IN
    IF ~decoded.ok
    THEN Answer(st, NoCall, TRUE, NoUser, AsyncHandlerCatch(decoded.message))
    ELSE LET id == FindById(st, decoded.value.userId) IN
         IF id = NoUser
         THEN Answer(st, NoCall, TRUE, NoUser,
                     AsyncHandlerCatch("Invalid verification token"))
         ELSE LET st1 == [st EXCEPT !.users[id].isEmailVerified = TRUE] IN
              Answer(st1, NoCall, TRUE, NoUser,
                     SendSuccess(ToPublicJSON(st1.users[id]), 200,
                                 "Email verified successfully"))

\* ---------------------------------------------------------- UserController
\* UserService.getUsers as UserController.getUsers calls it: no filter, and
\* extractPagination's default page (limit 10, offset 0). The page is given as
\* the set of its entries.
GetUsersOp(st) ==
    LET total == Cardinality(DOMAIN st.users) IN
    [st |-> st,
     out |-> Return([users |-> {SanitizeOutput(ToPublicJSON(st.users[i])) :
                                   i \in DOMAIN st.users},
                     pagination |-> [total |-> total, limit |-> 10, offset |-> 0,
                                     hasMore |-> 10 < total]])]

\* UserService.getUserById
GetUserByIdOp(st, id) ==
    IF FindById(st, id) = NoUser
    THEN [st |-> st, out |-> Throw("User not found")]
    ELSE [st |-> st, out |-> Return(SanitizeOutput(ToPublicJSON(st.users[id])))]

\* UserService.getUserStatistics
GetUserStatisticsOp(st) ==
    LET n(P(_)) == Cardinality({i \in DOMAIN st.users : P(st.users[i])})
        all(u) == TRUE
        active(u) == u.isActive
        verified(u) == u.isEmailVerified
        admin(u) == u.role = "admin"
    IN [st |-> st,
        out |-> Return([total |-> n(all), active |-> n(active),
                        verified |-> n(verified), admins |-> n(admin),
                        inactive |-> n(all) - n(active),
                        unverified |-> n(all) - n(verified)])]

\* The update schema of UserController.updateUser, as validateRequest's message.
JoiUpdate(u) ==
    CASE u.key = "email" -> JoiEmail(u.value)
      [] u.key = "role" ->
            IF u.value \in Roles THEN <<>>
            ELSE <<"\"role\" must be one of [user, admin, moderator]">>
      [] u.key \in {"firstName", "lastName"} -> JoiName(u.key, u.value)
      [] u.key = "isEmailVerified" ->
            IF u.value \in {"true", "false"} THEN <<>>
            ELSE <<"\"isEmailVerified\" must be a boolean">>
      [] OTHER -> <<"\"" \o u.key \o "\" is not allowed">>

RECURSIVE JoiUpdates(_)
JoiUpdates(updates) ==
    IF updates = <<>> THEN <<>>
    ELSE JoiUpdate(Head(updates)) \o JoiUpdates(Tail(updates))

ValidateUpdates(updates) == ValidationFailed(JoiUpdates(updates))

AdminRoutes ==
    {"GET /users", "GET /users/statistics", "POST /users", "PUT /users/:id",
     "DELETE /users/:id", "PATCH /users/:id/deactivate",
     "PATCH /users/:id/restore", "PATCH /users/:id/verify-email"}
ModeratorRoutes == {"GET /users/:id"}
CurrentUserRoutes == {"GET /users/me"}
UserRoutes == AdminRoutes \cup ModeratorRoutes \cup CurrentUserRoutes

\* The service call each UserController method makes; req is the request:
\* its :id parameter, its body.
ServiceCall(route, st, req) ==
    CASE route = "GET /users" -> GetUsersOp(st)
      [] route = "GET /users/statistics" -> GetUserStatisticsOp(st)
      [] route = "POST /users" -> CreateUserOp(st, req.body)
      [] route = "PUT /users/:id" -> UpdateUserOp(st, req.id, req.body)
      [] route = "DELETE /users/:id" -> DeleteUserOp(st, req.id)
      [] route = "PATCH /users/:id/deactivate" -> SoftDeleteUserOp(st, req.id)
      [] route = "PATCH /users/:id/restore" -> RestoreUserOp(st, req.id)
      [] route = "PATCH /users/:id/verify-email" -> VerifyUserEmailOp(st, req.id)
      [] route = "GET /users/:id" -> GetUserByIdOp(st, req.id)

\* validateRequest on the routes that read a body.
BodyError(route, req) ==
    CASE route = "POST /users" -> ValidateProfile(req.body)
      [] route = "PUT /users/:id" -> ValidateUpdates(req.body)
      [] OTHER -> ""

SuccessStatus(route) == IF route = "POST /users" THEN 201 ELSE 200

SuccessMessage(route) ==
    CASE route = "GET /users" -> "Users retrieved successfully"
      [] route = "GET /users/statistics" -> "User statistics retrieved successfully"
      [] route = "POST /users" -> "User created successfully"
      [] route = "PUT /users/:id" -> "User updated successfully"
      [] route = "DELETE /users/:id" -> "User deleted successfully"
      [] route = "PATCH /users/:id/deactivate" -> "User deactivated successfully"
      [] route = "PATCH /users/:id/restore" -> "User restored successfully"
      [] route = "PATCH /users/:id/verify-email" -> "User email verified successfully"
      [] route = "GET /users/:id" -> "User retrieved successfully"

\* The UserController method behind a route; reqUser is req.user.
UserHandler(route, st, req, reqUser) ==
    IF route = "GET /users/me"
    THEN Answer(st, NoCall, TRUE, reqUser,
                SendSuccess(ToPublicJSON(st.users[reqUser]), 200,
                            "Current user profile retrieved successfully"))
    ELSE IF BodyError(route, req) # ""
    THEN Answer(st, NoCall, TRUE, reqUser, AsyncHandlerCatch(BodyError(route, req)))
    ELSE LET r == ServiceCall(route, st, req)
             res == ExecuteOperation(r.out)
         IN Answer(r.st, [op |-> route] @@ res, TRUE, reqUser,
                   Respond(res,
                           IF res.success /\ route # "DELETE /users/:id"
                           THEN res.data ELSE Null,
                           SuccessStatus(route), SuccessMessage(route)))

\* UserRoutes.initializeRoutes: the role check mounted on a route (none on /me).
RequiredRoles(route) ==
    IF route \in AdminRoutes THEN AdminOnly
    ELSE IF route \in ModeratorRoutes THEN ModeratorUp
    ELSE <<>>

Denied(st, guard) ==
    [st |-> st, call |-> NoCall, reached |-> FALSE, user |-> NoUser,
     status |-> guard.status, body |-> guard.body]

\* A request to a /users route: authenticateToken of the middleware that
\* UserRoutes constructs around the repository, the role check, the handler.
UsersRoute(route, st, req) ==
    LET auth == AuthenticateToken("InMemoryUserRepository", st, req.token) IN
    IF ~auth.pass THEN Denied(st, auth)
    ELSE LET roles == RequiredRoles(route)
             check == RequireRoles(roles, st, auth.user)
         IN IF roles # <<>> /\ ~check.pass THEN Denied(st, check)
            ELSE UserHandler(route, st, req, auth.user)

\* A request to a protected /auth route: authenticateToken of the middleware
\* that AuthRoutes constructs around the AuthenticationService, the handler.
ProtectedAuthRoute(route, st, req) ==
    LET auth == AuthenticateToken("AuthenticationService", st, req.token) IN
    IF ~auth.pass THEN Denied(st, auth)
    ELSE CASE route = "POST /auth/refresh-token" ->
                  RefreshTokenHandler(st, req.token, auth.user)
           [] route = "GET /auth/profile" -> GetProfileHandler(st, auth.user)
           [] route = "POST /auth/logout" -> LogoutHandler(st, auth.user)
           [] route = "POST /auth/change-password" ->
                  ChangePasswordHandler(st, req.body, auth.user)

\* ------------------------------------------------------------------ inputs
Ids == 1..MaxUsers

\* The calls in flight are numbered; a slot without a call is Idle.
CallIds == 1..MaxCalls
Idle == [pc |-> "idle"]

Profile(email, password, firstName, role) ==
    [email |-> email, password |-> password, firstName |-> firstName,
     lastName |-> "Doe", role |-> role]

\* Well-formed profiles, and profiles breaking one shape rule each.
GoodProfiles ==
    {Profile(e, "password123", "John", r) :
        e \in {"new@example.com", "ADMIN@example.com"},
        r \in {"moderator", Absent}}

BadProfiles ==
    {Profile("invalid-email", "password123", "John", "user"),
     Profile("new@example.com", "123", "John", "user"),
     Profile("new@example.com", "password123", "J", "user"),
     Profile("new@example.com", "password123", "John", "invalid-role")}

\* Profiles breaking a rule on a name: too short, too long (51 characters).
LongName == "Abcdefghijklmnopqrstuvwxyzabcdefghijklmnopqrstuvwxy"

NameBreakers ==
    {Profile("new@example.com", "password123", LongName, "user"),
     [Profile("new@example.com", "password123", "John", "user") EXCEPT !.lastName = "D"],
     [Profile("new@example.com", "password123", "John", Absent)
         EXCEPT !.lastName = LongName]}

\* An update object is the sequence of its keys in insertion order.
Update(k, v) == [key |-> k, value |-> v]

EmailUpdates ==
    {<<Update("email", e)>> :
        e \in {"new@example.com", "ADMIN@example.com", "user@example.com"}}

\* Tokens a client may present: for an identity's id, a role claim and an
\* issue time, the token a holder of the secret signs over the payload
\* generateToken builds, the same token with a foreign signature, and a
\* string that is no JWT.
EmailClaim(id) ==
    CASE id = 1 -> "admin@example.com"
      [] id = 2 -> "user@example.com"
      [] OTHER -> "new@example.com"

Token(id, role, iat, sig) ==
    [userId |-> id, email |-> EmailClaim(id), role |-> role,
     iat |-> iat, exp |-> iat + TokenTTL, sig |-> sig, wellFormed |-> TRUE]

Malformed == [Token(1, "user", 0, "invalid") EXCEPT !.wellFormed = FALSE]

Tokens ==
    {Token(id, role, iat, sig) :
        id \in Ids, role \in {"admin", "moderator"},
        iat \in 0..MaxTime - 1, sig \in {"valid", "invalid"}}
    \cup {Malformed}

\* Source addresses (req.ip) and the routes behind their own authRateLimit.
Addresses == {"10.0.0.1", "10.0.0.2"}
LimitedRoutes ==
    {"POST /auth/login", "POST /auth/register", "POST /auth/reset-password"}

Credentials(emails, passwords) == [email : emails, password : passwords]

\* Requests to the /users routes: a token or none, the :id of the routes
\* that have one, the body of the routes that read one.
UserRequests(route, tokens) ==
    [token : tokens,
     id : IF route \in {"GET /users", "GET /users/statistics", "POST /users",
                        "GET /users/me"}
          THEN {NoUser} ELSE Ids,
     body : CASE route = "POST /users" -> GoodProfiles
              [] route = "PUT /users/:id" -> EmailUpdates
              [] OTHER -> {Null}]

\* A registration that makes a moderator.
ModeratorProfiles == {Profile("new@example.com", "password123", "John", "moderator")}

\* What a client of the protected routes may send: no token, no JWT, and for
\* each id the tokens whose role claim is the role that identity has.
GateTokens ==
    {t \in Tokens : t # Malformed => ((t.role = "admin") <=> (t.userId = 1))}
    \cup {NoToken}

\* The correctly signed ones among them, and no token.
SignedTokens ==
    {t \in GateTokens : t = NoToken \/ (t.wellFormed /\ t.sig = "valid")}

\* ------------------------------------------------------------------ actions
Commit(op, r) ==
    /\ users' = r.st.users
    /\ emailIndex' = r.st.emailIndex
    /\ nextId' = r.st.nextId
    /\ result' = op @@ ExecuteOperation(r.out)
    /\ response' = [route |-> "none"]
    /\ UNCHANGED <<now, env, attempts, calls>>

Init ==
    /\ users = SeedUsers
    /\ emailIndex = SeedIndex
    /\ nextId = 3
    /\ now = 0
    /\ env \in [JWT_SECRET : BOOLEAN, jwtRejectsExp : BOOLEAN]
    /\ attempts = [route \in LimitedRoutes |-> [ip \in Addresses |-> <<>>]]
    /\ result = NoCall
    /\ response = [route |-> "none"]
    /\ calls = [c \in CallIds |-> Idle]

Tick ==
    /\ now < MaxTime
    /\ now' = now + 1
    /\ UNCHANGED <<users, emailIndex, nextId, env, attempts, result, response, calls>>

Authenticate(emails, passwords) ==
    \E email \in emails, password \in passwords :
        Commit([op |-> "authenticate", email |-> email, password |-> password],
               AuthenticateOp(Store, email, password))

Register(profiles) ==
    /\ nextId <= MaxUsers
    /\ \E p \in profiles :
        Commit([op |-> "register", profile |-> p], RegisterOp(Store, p))

RefreshToken(tokens) ==
    \E token \in tokens :
        Commit([op |-> "refreshToken", token |-> token, calledAt |-> now],
               RefreshTokenOp(Store, token))

CreateUser(profiles) ==
    /\ nextId <= MaxUsers
    /\ \E p \in profiles :
        Commit([op |-> "createUser", profile |-> p], CreateUserOp(Store, p))

UpdateUser(updateObjects) ==
    \E id \in Ids, updates \in updateObjects :
        Commit([op |-> "updateUser", id |-> id, updates |-> updates],
               UpdateUserOp(Store, id, updates))

DeleteUser ==
    \E id \in Ids :
        Commit([op |-> "deleteUser", id |-> id], DeleteUserOp(Store, id))

SoftDeleteUser ==
    \E id \in Ids :
        Commit([op |-> "softDeleteUser", id |-> id], SoftDeleteUserOp(Store, id))

RestoreUser ==
    \E id \in Ids :
        Commit([op |-> "restoreUser", id |-> id], RestoreUserOp(Store, id))

VerifyUserEmail ==
    \E id \in Ids :
        Commit([op |-> "verifyUserEmail", id |-> id], VerifyUserEmailOp(Store, id))

\* generateToken called on a stored user, as the service's callers and its
\* tests do; nothing is stored.
GenerateTokenCall ==
    /\ \E id \in DOMAIN users :
        result' = [op |-> "generateToken", user |-> users[id], issuedAt |-> now,
                   out |-> GenerateToken(users[id])]
    /\ response' = [route |-> "none"]
    /\ UNCHANGED <<users, emailIndex, nextId, now, env, attempts, calls>>

\* ---- Calls in flight.
Stepped(c, r) ==
    /\ users' = r.st.users
    /\ emailIndex' = r.st.emailIndex
    /\ nextId' = r.st.nextId
    /\ calls' = [calls EXCEPT ![c] = r.call]
    /\ result' = IF r.call.pc = "done"
                 THEN [op |-> r.call.op, profile |-> r.call.profile, call |-> c]
                      @@ r.call.result
                 ELSE result
    /\ UNCHANGED <<now, env, attempts, response>>

\* A register or createUser call is made and runs to its first await.
StartCall(ops, profiles) ==
    \E c \in CallIds, op \in ops, p \in profiles :
        /\ calls[c] = Idle
        /\ Stepped(c, StartStep(Store, op, p))

\* A suspended call is resumed and runs to its next await or to its end.
ResumeCall ==
    \E c \in CallIds :
        /\ calls[c].pc \in {"checked", "hashing", "creating"}
        /\ Stepped(c, ResumeStep(Store, calls[c]))

\* ---- HTTP requests.
Sent(route, req, a) ==
    /\ users' = a.st.users
    /\ emailIndex' = a.st.emailIndex
    /\ nextId' = a.st.nextId
    /\ result' = a.call
    /\ response' = [route |-> route, request |-> req, at |-> now,
                    reached |-> a.reached, user |-> a.user,
                    status |-> a.status, body |-> a.body]
    /\ UNCHANGED <<now, env>>

Served(route, req, a) == Sent(route, req, a) /\ UNCHANGED calls

\* A request to a route behind authRateLimit: the limiter, then the handler.
Limited(route, limit, req, handled) ==
    LET gate == AuthRateLimit(limit, attempts[route][req.ip]) IN
    /\ attempts' = [attempts EXCEPT ![route][req.ip] = gate.stamps]
    /\ IF gate.pass
       THEN Served(route, req, handled)
       ELSE Served(route, req, Denied(Store, gate))

\* POST /auth/login
HttpLogin(addresses, bodies) ==
    \E ip \in addresses, body \in bodies :
        Limited("POST /auth/login", LoginLimit, [ip |-> ip, body |-> body],
                LoginHandler(Store, body))

\* POST /auth/register
HttpRegister(addresses, bodies) ==
    /\ nextId <= MaxUsers
    /\ \E ip \in addresses, body \in bodies :
        Limited("POST /auth/register", RegisterLimit, [ip |-> ip, body |-> body],
                RegisterHandler(Store, body))

\* POST /auth/refresh-token, GET /auth/profile, POST /auth/logout
HttpProtected(routes, tokens) ==
    /\ \E route \in routes, token \in tokens :
        Served(route, [token |-> token],
               ProtectedAuthRoute(route, Store, [token |-> token]))
    /\ UNCHANGED attempts

\* POST /auth/change-password
HttpChangePassword(tokens, bodies) ==
    /\ \E token \in tokens, body \in bodies :
        Served("POST /auth/change-password", [token |-> token, body |-> body],
               ProtectedAuthRoute("POST /auth/change-password", Store,
                                  [token |-> token, body |-> body]))
    /\ UNCHANGED attempts

\* POST /auth/reset-password
HttpResetPassword(addresses, bodies) ==
    \E ip \in addresses, body \in bodies :
        Limited("POST /auth/reset-password", RegisterLimit,
                [ip |-> ip, body |-> body], ResetPasswordHandler(Store, body))

\* ---- Concurrent requests to POST /auth/login. The limiter is a synchronous
\* function: it runs whole when the request arrives, and an admitted request
\* is then in flight, its handler suspended at `await authenticate(...)`,
\* while other requests arrive. slot is the length of the address's list
\* after the push.
ArriveLogin(addresses, bodies) ==
    \E ip \in addresses, body \in bodies :
        LET route == "POST /auth/login"
            req == [ip |-> ip, body |-> body]
            gate == AuthRateLimit(LoginLimit, attempts[route][ip])
        IN /\ attempts' = [attempts EXCEPT ![route][ip] = gate.stamps]
           /\ IF gate.pass
              THEN /\ \E c \in CallIds :
                        /\ calls[c] = Idle
                        /\ calls' = [calls EXCEPT ![c] =
                                        [pc |-> "handling", route |-> route,
                                         request |-> req, at |-> now,
                                         slot |-> Len(gate.stamps)]]
                   /\ UNCHANGED <<users, emailIndex, nextId, now, env,
                                  result, response>>
              ELSE Served(route, req, Denied(Store, gate))

\* The handler of a request in flight runs to its response.
FinishLogin ==
    \E c \in CallIds :
        /\ calls[c].pc = "handling"
        /\ Sent(calls[c].route, calls[c].request,
                LoginHandler(Store, calls[c].request.body))
        /\ calls' = [calls EXCEPT ![c] = Idle]
        /\ UNCHANGED attempts

\* GET /auth/verify-email/:token
HttpVerifyEmail(tokens) ==
    /\ \E token \in tokens :
        Served("GET /auth/verify-email/:token", [token |-> token],
               VerifyEmailHandler(Store, token))
    /\ UNCHANGED attempts

\* The /users routes.
HttpUsers(routes, tokens) ==
    /\ \E route \in routes :
        /\ route = "POST /users" => nextId <= MaxUsers
        /\ \E req \in UserRequests(route, tokens) :
             Served(route, req, UsersRoute(route, Store, req))
    /\ UNCHANGED attempts

\* ---- The credential store under registration and user management.
NextStore ==
    \/ Register(GoodProfiles)
    \/ CreateUser(GoodProfiles)
    \/ UpdateUser(EmailUpdates)
    \/ DeleteUser

SpecStore == Init /\ [][NextStore]_vars

\* ---- The authentication engine: login, registration, refresh, while
\* accounts are deactivated and restored and time passes.
NextAuth ==
    \/ Tick
    \/ Authenticate(Emails, Passwords)
    \/ Register(GoodProfiles \cup BadProfiles)
    \/ RefreshToken(Tokens)
    \/ GenerateTokenCall
    \/ SoftDeleteUser
    \/ RestoreUser

SpecAuth == Init /\ [][NextAuth]_vars

\* ---- The public /auth endpoints and token refresh over HTTP.
NextLogin ==
    \/ HttpLogin({"10.0.0.1"}, Credentials(Emails, Passwords))
    \/ HttpRegister({"10.0.0.1"}, GoodProfiles \cup BadProfiles)
    \/ HttpProtected({"POST /auth/refresh-token"}, Tokens \cup {NoToken})

SpecLogin == Init /\ [][NextLogin]_vars

\* ---- authenticateToken in front of the protected routes, while a moderator
\* registers, accounts are deactivated and restored, and time passes.
NextGate ==
    \/ Tick
    \/ Register(ModeratorProfiles)
    \/ SoftDeleteUser
    \/ RestoreUser
    \/ HttpProtected({"GET /auth/profile", "POST /auth/logout"}, GateTokens)
    \/ HttpUsers({"GET /users", "GET /users/me"}, GateTokens)

SpecGate == Init /\ [][NextGate]_vars

\* ---- The user-management routes, while a moderator registers and time passes.
NextUsers ==
    \/ Tick
    \/ Register(ModeratorProfiles)
    \/ HttpUsers(UserRoutes, SignedTokens)

SpecUsers == Init /\ [][NextUsers]_vars

\* ---- requireRoles(...roles) applied to a request whose req.user is a stored
\* identity, for the role lists a router may mount.
RoleLists ==
    {<<r>> : r \in Roles}
    \cup {pair \in Roles \X Roles : pair[1] # pair[2]}
    \cup {<<"user", "moderator", "admin">>}

RequireRolesCall(roleLists) ==
    /\ \E roles \in roleLists, id \in DOMAIN users :
        result' = [op |-> "requireRoles", roles |-> roles, user |-> id,
                   out |-> RequireRoles(roles, Store, id)]
    /\ response' = [route |-> "none"]
    /\ UNCHANGED <<users, emailIndex, nextId, now, env, attempts, calls>>

NextRoles ==
    \/ Register(GoodProfiles)
    \/ RequireRolesCall(RoleLists)

SpecRoles == Init /\ [][NextRoles]_vars

\* ---- refreshToken while identities are registered, deactivated, restored
\* and deleted and time passes.
NextRefresh ==
    \/ Tick
    \/ Register(ModeratorProfiles)
    \/ SoftDeleteUser
    \/ RestoreUser
    \/ DeleteUser
    \/ RefreshToken(GateTokens \ {NoToken})

SpecRefresh == Init /\ [][NextRefresh]_vars

\* verifyToken called on a presented token; nothing is stored.
VerifyTokenCall(tokens) ==
    /\ \E token \in tokens :
        result' = [op |-> "verifyToken", token |-> token, calledAt |-> now,
                   out |-> VerifyToken(token)]
    /\ response' = [route |-> "none"]
    /\ UNCHANGED <<users, emailIndex, nextId, now, env, attempts, calls>>

\* ---- Token issuance and verification with and without a signing secret.
NextSecret ==
    \/ Tick
    \/ Register(ModeratorProfiles)
    \/ Authenticate({"new@example.com", "admin@example.com"}, {"password123"})
    \/ RefreshToken(SignedTokens \ {NoToken})
    \/ GenerateTokenCall
    \/ VerifyTokenCall(GateTokens \ {NoToken})

SpecSecret == Init /\ [][NextSecret]_vars

\* ---- Registration followed by login.
NextRegister ==
    \/ Register(GoodProfiles \cup BadProfiles \cup NameBreakers)
    \/ Authenticate({"new@example.com", "ADMIN@example.com", "user@example.com"},
                    {"password123", "admin123"})

SpecRegister == Init /\ [][NextRegister]_vars

\* ---- The rate-limited endpoints under repeated requests from two
\* addresses, while time passes.
LimitOf(route) ==
    IF route = "POST /auth/login" THEN LoginLimit ELSE RegisterLimit

NextLimit ==
    \/ Tick
    \/ HttpLogin(Addresses, Credentials({"admin@example.com"}, {"admin123"}))
    \/ HttpRegister({"10.0.0.1"}, {Profile("invalid-email", "password123", "John", "user")})

SpecLimit == Init /\ [][NextLimit]_vars

\* ---- The stored passwords under change-password and reset-password
\* requests, while a moderator registers and updates with a password key are
\* tried.
PasswordUpdates ==
    {<<Update("password", "newpassword1")>>,
     <<Update("firstName", "Jane"), Update("password", "newpassword1")>>}

\* The admin's token issued one lifetime ago.
ExpiredToken == Token(1, "admin", 0 - TokenTTL, "valid")

PasswordTokens ==
    {t \in GateTokens : t = NoToken \/ t = Malformed \/ t.iat = 0}
    \cup {ExpiredToken}

ChangeBodies ==
    [currentPassword : {"password123", "admin123"},
     newPassword : {"newpassword1", "123"}]

ResetBodies ==
    [token : PasswordTokens, newPassword : {"newpassword1", "123"}]

NextPassword ==
    \/ Register(ModeratorProfiles)
    \/ UpdateUser(PasswordUpdates)
    \/ HttpChangePassword(PasswordTokens, ChangeBodies)
    \/ HttpResetPassword({"10.0.0.1"}, ResetBodies)

SpecPassword == Init /\ [][NextPassword]_vars

\* ---- Sessions: tokens presented to refresh, logout and change-password
\* while a moderator registers and time passes.
NextSession ==
    \/ Tick
    \/ Register(ModeratorProfiles)
    \/ HttpProtected({"POST /auth/refresh-token", "POST /auth/logout"}, PasswordTokens)
    \/ HttpChangePassword(PasswordTokens, ChangeBodies)

SpecSession == Init /\ [][NextSession]_vars

\* ---- The three operations of the AuthenticationService on every kind of
\* input, while identities are deactivated and deleted and time passes.
NextService ==
    \/ Tick
    \/ Authenticate(Emails, Passwords)
    \/ Register(GoodProfiles \cup BadProfiles \cup NameBreakers)
    \/ RefreshToken(PasswordTokens \ {NoToken})
    \/ SoftDeleteUser
    \/ DeleteUser

SpecService == Init /\ [][NextService]_vars

\* ---- Two register or createUser calls in flight at once.
RaceProfiles ==
    {Profile(e, "password123", "John", Absent) :
        e \in {"new@example.com", "NEW@example.com", "ADMIN@example.com"}}
    \cup {Profile("new@example.com", "123", "John", "user")}

NextRace ==
    \/ StartCall({"register", "createUser"}, RaceProfiles)
    \/ ResumeCall

SpecRace == Init /\ [][NextRace]_vars

\* ---- Bursts of concurrent login requests from one address, while time
\* passes.
NextBurst ==
    \/ Tick
    \/ ArriveLogin({"10.0.0.1"}, Credentials({"admin@example.com"}, {"admin123"}))
    \/ FinishLogin

SpecBurst == Init /\ [][NextBurst]_vars

\* ---- Account recovery: reset-password and verify-email requests, while a
\* moderator registers and logs in.
NextRecovery ==
    \/ Register(ModeratorProfiles)
    \/ Authenticate({"new@example.com"}, {"password123", "newpassword1"})
    \/ HttpResetPassword({"10.0.0.1"}, ResetBodies)
    \/ HttpVerifyEmail(PasswordTokens \ {NoToken})

SpecRecovery == Init /\ [][NextRecovery]_vars

\* ---- The role-checked routes, presented with the tokens the seeded
\* identities were issued at the start, while updateUser changes roles and
\* time passes.
RoleUpdates == {<<Update("role", r)>> : r \in Roles}

SeedTokens == {Token(1, "admin", 0, "valid"), Token(2, "user", 0, "valid")}

NextRoleChange ==
    \/ Tick
    \/ UpdateUser(RoleUpdates)
    \/ HttpUsers({"GET /users", "GET /users/:id"}, SeedTokens)

SpecRoleChange == Init /\ [][NextRoleChange]_vars

\* ---- User management: every operation of the UserService that writes.
NextManage ==
    \/ CreateUser(GoodProfiles)
    \/ UpdateUser(RoleUpdates)
    \/ DeleteUser
    \/ SoftDeleteUser
    \/ RestoreUser
    \/ VerifyUserEmail

SpecManage == Init /\ [][NextManage]_vars

\* ================================================================== claims

\* C1: in every reachable state of the store no two stored identities have
\* the same e-mail address, compared case-insensitively.
C1_EmailUnique ==
    \A i, j \in DOMAIN users :
        i # j => ToLowerCase(users[i].email) # ToLowerCase(users[j].email)

\* The three ways credentials are rejected: no identity has the e-mail, the
\* identity is inactive, the password does not verify.
NoSuchIdentity(email) == FindByEmail(Store, email) = NoUser
Inactive(email) ==
    /\ FindByEmail(Store, email) # NoUser
    /\ ~users[FindByEmail(Store, email)].isActive
WrongPassword(email, password) ==
    /\ FindByEmail(Store, email) # NoUser
    /\ ~ComparePassword(password, users[FindByEmail(Store, email)].password)

\* C2: for inputs that pass shape validation, authenticate answers the three
\* rejections (unknown e-mail, inactive identity, wrong password) with one
\* and the same message and code.
C2_OneRejection ==
    (/\ result.op = "authenticate"
     /\ LoginShapeOk(result.email, result.password)
     /\ \/ NoSuchIdentity(result.email)
        \/ Inactive(result.email)
        \/ WrongPassword(result.email, result.password))
    => /\ ~result.success
       /\ result.error.message = "Invalid credentials"
       /\ result.error.code = "INTERNAL_ERROR"

\* C2 witness: a deactivated identity was asked for with its correct password
\* and rejected.
C2_Witness ==
    /\ result.op = "authenticate"
    /\ Inactive(result.email)
    /\ ~WrongPassword(result.email, result.password)
    /\ ~result.success

\* C3: authenticate with the e-mail and the correct password of an active
\* stored identity succeeds with the public projection, a token and
\* expiresIn, and sets lastLoginAt; admin@example.com with admin123 logs in
\* as an admin.
C3_LoginSucceeds ==
    /\ (/\ result.op = "authenticate"
        /\ env.JWT_SECRET
        /\ ~NoSuchIdentity(result.email)
        /\ ~Inactive(result.email)
        /\ ~WrongPassword(result.email, result.password))
       => /\ result.success
          /\ DOMAIN result.data = {"user", "token", "expiresIn"}
          /\ users[FindByEmail(Store, result.email)].lastLoginAt # NoTime
    /\ (/\ result.op = "authenticate"
        /\ env.JWT_SECRET
        /\ result.email = "admin@example.com"
        /\ result.password = "admin123"
        /\ users[1] = SeedUsers[1])
       => /\ result.success
          /\ result.data.user.role = "admin"

\* C6: with a signing secret configured generateToken succeeds for every
\* stored identity; the token verifies until its expiry to claims carrying
\* the identity's id, e-mail and role, and no longer verifies from its
\* expiry on.
C6_IssueThenVerify ==
    (result.op = "generateToken" /\ env.JWT_SECRET)
    => /\ result.out.ok
       /\ \A t \in result.issuedAt .. result.issuedAt + TokenTTL - 1 :
            /\ JwtVerify(result.out.value, t).ok
            /\ JwtVerify(result.out.value, t).value.userId = result.user.id
            /\ JwtVerify(result.out.value, t).value.email = result.user.email
            /\ JwtVerify(result.out.value, t).value.role = result.user.role
       /\ ~JwtVerify(result.out.value, result.issuedAt + TokenTTL).ok

\* C7: refreshToken answers every token that fails verification (malformed,
\* wrongly signed, expired) with the one message 'Invalid token'.
C7_OneTokenError ==
    (/\ result.op = "refreshToken"
     /\ env.JWT_SECRET
     /\ ~JwtVerify(result.token, result.calledAt).ok)
    => /\ ~result.success
       /\ result.error.message = "Invalid token"

\* ---- C4
AuthEndpoints ==
    {"POST /auth/login", "POST /auth/register", "POST /auth/refresh-token"}

SuccessfulAuthResponse ==
    /\ response.route \in AuthEndpoints
    /\ response.status \in {200, 201}
    /\ response.body.success

\* C4: the body of every successful response of POST /auth/login,
\* POST /auth/register and POST /auth/refresh-token has data.token, data.user
\* and data.expiresIn.
C4_BodyCarriesToken ==
    SuccessfulAuthResponse =>
        {"token", "user", "expiresIn"} \subseteq DOMAIN response.body.data

\* ---- C5
PasswordKeys == {"password", "passwordHash"}
TextKeys == {"email", "firstName", "lastName", "fullName", "role", "expiresIn",
             "message", "code", "sig"}

\* The passwords the clients use and every stored hash.
Secrets ==
    Passwords \cup {HashPassword(p) : p \in Passwords}
              \cup {users[i].password : i \in DOMAIN users}

\* A flat object shows a password: under a password key, or as a text value.
Shows(obj) ==
    \/ DOMAIN obj \cap PasswordKeys # {}
    \/ \E k \in DOMAIN obj \cap TextKeys : obj[k] \in Secrets

\* The same for the data of an AuthResult, with or without its token.
DataShows(data) ==
    \/ Shows(data)
    \/ "user" \in DOMAIN data /\ Shows(data.user)
    \/ "token" \in DOMAIN data /\ Shows(data.token)

ResultShows ==
    /\ result.op \in {"authenticate", "register", "refreshToken"}
    /\ IF result.success THEN DataShows(result.data) ELSE Shows(result.error)

BodyShows ==
    /\ response.route \in AuthEndpoints
    /\ IF response.body.success
       THEN DataShows(response.body.data)
       ELSE Shows(response.body.error)

\* C5: no result of register, authenticate or refreshToken, and no response
\* body built from one, contains a password or a password hash.
C5_NoPasswordOut == ~ResultShows /\ ~BodyShows

\* A registration has succeeded and stored a hash, and its result and its
\* response body carry the new identity.
C5_Witness ==
    /\ result.op = "register" /\ result.success
    /\ response.route = "POST /auth/register" /\ response.status = 201
    /\ "user" \in DOMAIN response.body.data
    /\ \E i \in DOMAIN users :
          /\ users[i].email = result.data.user.email
          /\ users[i].password = HashPassword(response.request.body.password)

\* ---- C8
ProtectedRoutes ==
    {"POST /auth/refresh-token", "GET /auth/profile", "POST /auth/logout"}
    \cup UserRoutes

\* The token verifies now and its subject is a stored, active identity.
Admissible(token) ==
    /\ token # NoToken
    /\ VerifyToken(token).ok
    /\ token.userId \in DOMAIN users
    /\ users[token.userId].isActive

ErrorCode(body) == IF body.success THEN "" ELSE body.error.code

\* C8: a request to a protected route reaches the handler only with a token
\* that verifies and whose subject is a stored, active identity, which becomes
\* req.user; with no token the answer is 401 MISSING_TOKEN and with any other
\* inadmissible token 401 INVALID_TOKEN, the handler not being called.
C8_GateAdmitsOnlyActive ==
    [][(response'.route \in ProtectedRoutes /\ now' = now) =>
         LET token == response'.request.token IN
         /\ response'.reached =>
               Admissible(token) /\ response'.user = token.userId
         /\ token = NoToken =>
               /\ ~response'.reached
               /\ response'.status = 401
               /\ ErrorCode(response'.body) = "MISSING_TOKEN"
         /\ (token # NoToken /\ ~Admissible(token)) =>
               /\ ~response'.reached
               /\ response'.status = 401
               /\ ErrorCode(response'.body) = "INVALID_TOKEN"]_vars

\* A request with an admissible token has reached a handler.
C8_Witness ==
    /\ response.route = "GET /auth/profile"
    /\ response.reached
    /\ response.user = response.request.token.userId
    /\ response.status = 200

\* ---- C9
DocumentedAdminRoutes ==
    {"GET /users", "POST /users", "PUT /users/:id", "DELETE /users/:id",
     "PATCH /users/:id/deactivate", "PATCH /users/:id/restore"}

\* C9: on the documented admin-only routes a request with a valid, unexpired
\* token of an active admin reaches the handler.
C9_AdminReachesHandler ==
    [][(/\ response'.route \in DocumentedAdminRoutes
        /\ now' = now
        /\ Admissible(response'.request.token)
        /\ users[response'.request.token.userId].role = "admin")
       => response'.reached]_vars

\* ---- C10
\* C10: on every admin-only route a request with a valid token of an active
\* moderator is answered 403 INSUFFICIENT_PERMISSIONS with required roles
\* [admin] and actual role moderator, and the handler is not reached.
C10_ModeratorForbidden ==
    [][(/\ response'.route \in AdminRoutes
        /\ now' = now
        /\ Admissible(response'.request.token)
        /\ users[response'.request.token.userId].role = "moderator")
       => /\ ~response'.reached
          /\ response'.status = 403
          /\ ErrorCode(response'.body) = "INSUFFICIENT_PERMISSIONS"
          /\ response'.body.error.requiredRoles = <<"admin">>
          /\ response'.body.error.userRole = "moderator"]_vars

\* ---- C11
Listed(roles) == {roles[i] : i \in 1..Len(roles)}

\* C11: every role check whose required roles contain moderator admits a
\* request whose identity has role admin, whether or not admin is listed.
C11_AdminPassesModeratorChecks ==
    (/\ result.op = "requireRoles"
     /\ "moderator" \in Listed(result.roles)
     /\ users[result.user].role = "admin")
    => result.out.pass

\* ---- C12
\* The last call was refreshToken with a correctly signed token that had not
\* expired when it was presented.
RefreshedWithLiveToken ==
    /\ result.op = "refreshToken"
    /\ result.token.wellFormed
    /\ result.token.sig = "valid"
    /\ result.calledAt < result.token.exp

\* C12: refreshToken with a correctly signed, unexpired token whose identity
\* is deactivated or deleted returns a failure and no new token.
C12_NoRefreshForGone ==
    (/\ RefreshedWithLiveToken
     /\ \/ result.token.userId \notin DOMAIN users
        \/ ~users[result.token.userId].isActive)
    => ~result.success /\ "data" \notin DOMAIN result

\* With a secret configured, a live token of a deactivated identity has been
\* refused as 'Invalid token'.
C12_Witness ==
    /\ RefreshedWithLiveToken
    /\ env.JWT_SECRET
    /\ result.token.userId \in DOMAIN users
    /\ ~users[result.token.userId].isActive
    /\ ~result.success
    /\ result.error.message = "Invalid token"

\* ---- C13
\* The last service call returned the missing secret as a {success: false} result.
SecretErrorReturned ==
    /\ result.op \in {"authenticate", "register", "refreshToken"}
    /\ ~result.success
    /\ result.error.message = SecretRequired

\* The last request carried a token and was answered 401 INVALID_TOKEN.
AnsweredInvalidToken ==
    /\ response.route \in ProtectedRoutes
    /\ response.request.token # NoToken
    /\ response.status = 401
    /\ ErrorCode(response.body) = "INVALID_TOKEN"

\* C13: while no signing secret is configured, authenticate, register and
\* refreshToken never return the missing secret as an ordinary failed result,
\* and authenticateToken never answers it as 401 INVALID_TOKEN.
C13_SecretErrorNotSwallowed ==
    ~env.JWT_SECRET => ~SecretErrorReturned /\ ~AnsweredInvalidToken

\* ---- C14
\* C14: while no signing secret is configured, generateToken fails with
\* 'JWT_SECRET environment variable is required', verifyToken accepts no
\* token, and authenticate, register and refreshToken return no token.
C14_NoSecretNoToken ==
    ~env.JWT_SECRET =>
        /\ result.op = "generateToken" => result.out = Throw(SecretRequired)
        /\ result.op = "verifyToken" => ~result.out.ok
        /\ result.op \in {"authenticate", "register", "refreshToken"} =>
              ~result.success /\ "data" \notin DOMAIN result

\* Without a secret, generateToken has been called on a stored identity.
C14_Witness ==
    /\ ~env.JWT_SECRET
    /\ result.op = "generateToken"
    /\ result.out = Throw(SecretRequired)

\* ---- C15
\* Some stored identity has this e-mail address, letter case aside.
EmailTaken(email) ==
    \E i \in DOMAIN users : ToLowerCase(users[i].email) = ToLowerCase(email)

\* C15: a register call with an otherwise well-shaped profile whose e-mail
\* equals a stored identity's e-mail up to letter case fails with 'User with
\* this email already exists' and adds no identity to the store.
C15_DuplicateEmailRefused ==
    [][(/\ result'.op = "register"
        /\ result' # result
        /\ ProfileShapeOk(result'.profile)
        /\ EmailTaken(result'.profile.email))
       => /\ ~result'.success
          /\ result'.error.message = "User with this email already exists"
          /\ users' = users]_vars

\* ---- C16
\* The identity a successful register call has just stored.
Registered(id) ==
    /\ id \in DOMAIN users' \ DOMAIN users
    /\ users'[id].email = result'.profile.email

\* C16: after a successful register(profile) the stored password differs
\* from profile.password and verifies against it, and the returned token
\* verifies to the new identity's id; an authenticate(profile.email,
\* profile.password) that follows succeeds for that identity.
C16_RegisterThenLogin ==
    [][/\ (result'.op = "register" /\ result'.success /\ result' # result) =>
            \E id \in DOMAIN users' :
                /\ Registered(id)
                /\ users'[id].password # result'.profile.password
                /\ ComparePassword(result'.profile.password, users'[id].password)
                /\ VerifyToken(result'.data.token).ok
                /\ VerifyToken(result'.data.token).value.userId = id
       /\ (/\ result.op = "register" /\ result.success
           /\ result'.op = "authenticate"
           /\ result'.email = result.profile.email
           /\ result'.password = result.profile.password) =>
            /\ result'.success
            /\ result'.data.user.email = result.profile.email]_vars

\* A registration has succeeded and the login that followed it too.
C16_Witness ==
    /\ result.op = "authenticate"
    /\ result.success
    /\ result.email = "new@example.com"
    /\ \E id \in DOMAIN users :
          /\ users[id].email = "new@example.com"
          /\ users[id].password = HashPassword(result.password)
          /\ users[id].lastLoginAt # NoTime

\* ---- C17
\* The profile violates a shape rule: e-mail format, password of at least 8
\* characters, names of 2 to 50 characters, role among user, moderator, admin
\* when one is given.
BreaksShape(p) ==
    \/ ~IsEmail(p.email)
    \/ Len(p.password) < 8
    \/ Len(p.firstName) < 2 \/ Len(p.firstName) > 50
    \/ Len(p.lastName) < 2 \/ Len(p.lastName) > 50
    \/ p.role \notin {"user", "moderator", "admin", Absent}

\* C17: register with a profile that violates a shape rule returns a failure
\* with message 'Invalid input data' and leaves the store unchanged.
C17_BadShapeRefused ==
    [][(/\ result'.op = "register"
        /\ result' # result
        /\ BreaksShape(result'.profile))
       => /\ ~result'.success
          /\ result'.error.message = "Invalid input data"
          /\ users' = users
          /\ emailIndex' = emailIndex]_vars

\* A registration with a name that is too long has been refused.
C17_Witness ==
    /\ result.op = "register"
    /\ Len(result.profile.lastName) > MaxNameLen
    /\ ~result.success
    /\ result.error.message = "Invalid input data"

\* ---- C18
\* How many requests of this address the route has admitted within the
\* window that ends at time t.
Admitted(log, route, ip, t) ==
    Cardinality({i \in 1..Len(log[route][ip]) :
                    (t - log[route][ip][i]) * LimitOf(route).windowsPerUnit < 1})

ServiceRefused(route, op, msg) ==
    /\ response.route = route
    /\ response.reached
    /\ result.op = op
    /\ ~result.success
    /\ result.error.message = msg

\* The last request reached its handler with a body the schema rejects.
BodyRejected ==
    /\ response.route \in {"POST /auth/login", "POST /auth/register"}
    /\ response.reached
    /\ IF response.route = "POST /auth/login"
       THEN ValidateLogin(response.request.body) # ""
       ELSE ValidateProfile(response.request.body) # ""

\* The last request was a refresh with a token that does not verify.
RefreshWithBadToken ==
    /\ response.route = "POST /auth/refresh-token"
    /\ response.request.token # NoToken
    /\ env.JWT_SECRET
    /\ ~JwtVerify(response.request.token, response.at).ok

\* C19: a login rejected for bad credentials is answered 401, a refresh
\* rejected for an invalid token 401, a registration rejected for a duplicate
\* e-mail 409, and a request rejected by body validation 400.
C19_TaxonomyStatus ==
    /\ ServiceRefused("POST /auth/login", "authenticate", "Invalid credentials")
          => response.status = 401
    /\ RefreshWithBadToken => response.status = 401
    /\ ServiceRefused("POST /auth/register", "register",
                      "User with this email already exists")
          => response.status = 409
    /\ BodyRejected => response.status = 400

\* ---- C20
\* This step is a change-password request of identity id whose current
\* password verified against the stored hash, and it stored the new hash.
ChangedAfterVerification(id) ==
    /\ response'.route = "POST /auth/change-password"
    /\ response'.reached
    /\ response'.user = id
    /\ ComparePassword(response'.request.body.currentPassword, users[id].password)
    /\ users'[id].password = HashPassword(response'.request.body.newPassword)

\* This step is a reset-password request with a token that verifies and
\* names identity id, and it stored the new hash.
ResetWithValidToken(id) ==
    /\ response'.route = "POST /auth/reset-password"
    /\ response'.reached
    /\ response'.request.body.token # NoToken
    /\ VerifyToken(response'.request.body.token).ok
    /\ response'.request.body.token.userId = id
    /\ users'[id].password = HashPassword(response'.request.body.newPassword)

\* C20: the stored password of an identity is replaced only by
\* change-password after the current password verified, or by reset-password
\* with a valid token of that identity; in every other step it is unchanged.
C20_PasswordReplacedOnlyVerified ==
    [][\A id \in DOMAIN users \cap DOMAIN users' :
          users'[id].password # users[id].password =>
              ChangedAfterVerification(id) \/ ResetWithValidToken(id)]_vars

\* A change-password request with the right current password has replaced
\* the stored hash.
C20_Witness ==
    /\ response.route = "POST /auth/change-password"
    /\ response.status = 200
    /\ response.request.body.currentPassword = "password123"
    /\ users[response.user].password = HashPassword(response.request.body.newPassword)

\* ---- C21
\* The tokens a client may hold: the signed ones of the model and the one the
\* last refresh issued.
HeldTokens ==
    (SignedTokens \ {NoToken})
    \cup (IF result.op = "refreshToken" /\ result.success
          THEN {result.data.token} ELSE {})

\* C21: a token that verifyToken accepts is still accepted after every step
\* that ends before the token's expiry, a refresh, a logout and a password
\* change with that token included; and a logout request changes nothing in
\* the store or the limiter.
C21_TokenOutlivesSession ==
    [][/\ \A t \in HeldTokens :
             (VerifyToken(t).ok /\ now' < t.exp) =>
                 (env'.JWT_SECRET /\ JwtVerify(t, now').ok)
       /\ (response'.route = "POST /auth/logout" /\ now' = now) =>
             UNCHANGED <<users, emailIndex, nextId, attempts>>]_vars

\* A password change made with a token has succeeded and the same token
\* still verifies.
C21_Witness ==
    /\ response.route = "POST /auth/change-password"
    /\ response.status = 200
    /\ users[response.user].password = HashPassword(response.request.body.newPassword)
    /\ VerifyToken(response.request.token).ok

\* ---- C22
\* C22: every call of authenticate, register and refreshToken returns a
\* result: either {success: true, data} or {success: false, error} with
\* error made of message, code and timestamp; no error leaves the call.
C22_AlwaysAResult ==
    result.op \in {"authenticate", "register", "refreshToken"} =>
        /\ "success" \in DOMAIN result
        /\ IF result.success
           THEN "data" \in DOMAIN result /\ "error" \notin DOMAIN result
           ELSE /\ "error" \in DOMAIN result
                /\ "data" \notin DOMAIN result
                /\ DOMAIN result.error = {"message", "code", "timestamp"}

\* A registration whose profile was accepted has failed inside generateToken
\* and the error has come back as a failed result.
C22_Witness ==
    /\ result.op = "register"
    /\ ProfileShapeOk(result.profile)
    /\ ~result.success
    /\ result.error.message = SecretRequired
    /\ result.error.code = "INTERNAL_ERROR"

\* ---- C23
\* Both calls have returned and their profiles had the same normalized e-mail.
RacedFor(c, d) ==
    /\ c # d
    /\ calls[c].pc = "done" /\ calls[d].pc = "done"
    /\ ProfileShapeOk(calls[c].profile) /\ ProfileShapeOk(calls[d].profile)
    /\ ToLowerCase(calls[c].profile.email) = ToLowerCase(calls[d].profile.email)

StoredWith(email) ==
    {i \in DOMAIN users : ToLowerCase(users[i].email) = ToLowerCase(email)}

\* C23: when two register or createUser calls for the same normalized e-mail
\* have run interleaved at their awaits, at most one identity with that
\* e-mail is stored, at most one call has succeeded, and if one has, the
\* other has failed with 'User with this email already exists'.
C23_RaceAdmitsOne ==
    \A c, d \in CallIds :
        RacedFor(c, d) =>
            /\ Cardinality(StoredWith(calls[c].profile.email)) <= 1
            /\ ~(calls[c].result.success /\ calls[d].result.success)
            /\ calls[c].result.success =>
                  calls[d].result.error.message = "User with this email already exists"

\* ---- C24
\* Two requests in flight that the limiter admitted from one address at one
\* instant.
AdmittedTogether(c, d) ==
    /\ c # d
    /\ calls[c].pc = "handling" /\ calls[d].pc = "handling"
    /\ calls[c].route = calls[d].route
    /\ calls[c].request.ip = calls[d].request.ip
    /\ calls[c].at = calls[d].at

\* This step admits a request, which goes in flight as call c.
AdmittedAs(c) == calls[c] = Idle /\ calls'[c].pc = "handling"

\* C24: under every interleaving of requests arriving and handlers
\* finishing, an admission takes one slot of its address's window for itself
\* (the count of the window grows by exactly one, from below max), two
\* requests admitted together hold different slots, and no window ever holds
\* more than max admissions.
C24_LimiterAtomic ==
    /\ [](\A c, d \in CallIds :
             AdmittedTogether(c, d) => calls[c].slot # calls[d].slot)
    /\ [](\A route \in LimitedRoutes, ip \in Addresses :
             Admitted(attempts, route, ip, now) <= LimitOf(route).max)
    /\ [][\A c \in CallIds :
             AdmittedAs(c) =>
                 LET route == calls'[c].route
                     ip == calls'[c].request.ip
                     before == Admitted(attempts, route, ip, now)
                     after == Admitted(attempts', route, ip, now)
                 IN /\ before < LimitOf(route).max
                    /\ after = before + 1
                    /\ calls'[c].slot = after]_vars

\* Two requests of one address are in flight, the window is full, and a
\* further request of that address has just been refused.
C24_Witness ==
    /\ AdmittedTogether(1, 2)
    /\ Len(attempts["POST /auth/login"][calls[1].request.ip]) = LoginLimit.max
    /\ response.route = "POST /auth/login"
    /\ response.status = 429
    /\ response.request.ip = calls[1].request.ip
    /\ response.at = calls[1].at

\* ---- C25
\* C25: in every state of the store findByEmail(e) returns an identity whose
\* e-mail is e up to letter case when one is stored, and nothing when none
\* is; so an identity whose e-mail was changed is found under the new
\* address and not under the old one.
C25_IndexMatchesStore ==
    \A e \in Emails :
        LET found == FindByEmail(Store, e) IN
        /\ StoredWith(e) = {} => found = NoUser
        /\ StoredWith(e) # {} => found \in StoredWith(e)

\* ---- C26
\* The passwords clients supply, and what hashPassword makes of them.
ClientPasswords == Passwords \cup {"newpassword1"}
Digests == {HashPassword(p) : p \in ClientPasswords} \cup {SeedHash}

\* C26: in every reachable state the password stored for every identity is
\* a bcrypt digest (the seeded one, or one hashPassword produced) and never a
\* password as a client supplied it, whether register or createUser stored it.
C26_StoredPasswordsHashed ==
    \A i \in DOMAIN users :
        /\ users[i].password \notin ClientPasswords
        /\ users[i].password \in Digests

\* ---- C27
\* C27: a call of authenticate, register or refreshToken that returns a
\* failure leaves the credential store as it was: no identity added, no
\* lastLoginAt modified, also when the failure is that of token issuance.
C27_FailureLeavesStore ==
    [][(/\ result'.op \in {"authenticate", "register", "refreshToken"}
        /\ result' # result
        /\ ~result'.success)
       => /\ users' = users
          /\ emailIndex' = emailIndex]_vars

\* ---- C28
\* The token the last successful authenticate, register or refreshToken
\* call issued.
IssuedTokens ==
    IF result.op \in {"authenticate", "register", "refreshToken"} /\ result.success
    THEN {result.data.token}
    ELSE {}

\* This step answers a reset-password or verify-email request that
\* presented the token t.
Presented(t) ==
    \/ /\ response'.route = "POST /auth/reset-password"
       /\ response'.reached
       /\ response'.request.body.token = t
    \/ /\ response'.route = "GET /auth/verify-email/:token"
       /\ response'.request.token = t

\* C28: reset-password and verify-email do not accept a token that login,
\* register or refresh issued: a request presenting one is not answered 200
\* and replaces no password and marks no e-mail verified.
C28_AccessTokenNotForRecovery ==
    [][\A t \in IssuedTokens :
          (Presented(t) /\ response' # response) =>
              /\ response'.status # 200
              /\ users' = users]_vars

\* ---- C29
\* The token is admissible and the role of its identity in the store is no
\* longer the role the token claims.
RoleChangedSince(token) ==
    /\ Admissible(token)
    /\ users[token.userId].role # token.role

\* C29: a request to a role-checked route with a token issued before
\* updateUser changed its identity's role is decided by the role in the
\* store: it reaches the handler when that role is among the required ones,
\* and does not reach it when it is not, whatever role the token claims.
C29_StoreRoleDecides ==
    [][(/\ response'.route \in AdminRoutes \cup ModeratorRoutes
        /\ now' = now
        /\ RoleChangedSince(response'.request.token))
       => LET role == users[response'.request.token.userId].role
              required == Listed(RequiredRoles(response'.route))
          IN /\ role \in required => response'.reached
             /\ role \notin required => ~response'.reached]_vars

\* ---- C30
\* C30: from the seeded store on, whatever createUser, updateUser,
\* deleteUser, softDeleteUser, restoreUser and verifyUserEmail calls are
\* made, some stored identity is active and has the role admin.
C30_AnAdminRemains ==
    \E i \in DOMAIN users : users[i].role = "admin" /\ users[i].isActive

====
